---------------------------- MODULE Spec2Model ----------------------------
(***************************************************************************)
(* Model of scripts/fetcher.py: the IPTV data sync.  One run of main()     *)
(* creates the two output directories, fetches five JSON collections one   *)
(* after another, builds four lookup maps, merges the streams with the     *)
(* channel metadata, writes the master database and splits it into one     *)
(* file per country.  The file system outlives a run; everything else is   *)
(* process memory.                                                         *)
(*                                                                         *)
(* Values.  A Python str is the sequence of its characters, so that the    *)
(* file-name sanitiser works on characters as the code does.  None and a   *)
(* key that an object does not hold are two marker values that are not     *)
(* strings (their element is not a single character).  The empty string    *)
(* is <<>>; it and None are the falsy values that occur.                   *)
(*                                                                         *)
(* Objects.  A channel, stream, country or logo object is a record of the  *)
(* keys the code reads that decide a lookup or a branch; a key the object  *)
(* lacks holds Absent.  The remaining keys of an entry (name, alt_names,   *)
(* network, owners, subdivision, city, categories, languages, is_nsfw,     *)
(* stream_quality, stream_format, user_agent, referrer, website,           *)
(* launched, closed) are copied with .get and feed no lookup, no branch    *)
(* and no file name; they are left out.  A guide object is stored whole;   *)
(* it is the pair <<channel, site>>.                                       *)
(***************************************************************************)
EXTENDS Naturals, Sequences, FiniteSets, Bags, TLC

VARIABLES
  api,              \* what the remote API serves during the current run
  pc,               \* position of the run in main()
  runs,             \* number of runs started so far
  exit_status,      \* <<>> while the process runs, then <<its exit status>>
  dirs,             \* directories that exist
  files,            \* the files that exist: path <<folder, name>> -> content
  files_before,     \* files when the current run started
  requests,         \* endpoints requested by this run, in order
  errors,           \* endpoints this run reported "Error fetching" for
  fetched,          \* the collections fetched so far by this run
  country_map, logo_map, guide_map, channel_map,
  stream_idx,       \* index of the next stream of the merge loop
  master_database,
  country_groups

mem == <<requests, errors, fetched, country_map, logo_map, guide_map,
         channel_map, stream_idx, master_database, country_groups>>
disk == <<dirs, files>>
vars == <<api, pc, exit_status, runs, files_before, disk, mem>>

----------------------------------------------------------------------------
(* Bounds *)
MaxLen == 2         \* longest collection of a single-run input
MaxSyncLen == 2     \* longest collection of an input of the repeated runs
MaxRuns == 2        \* runs of the program over the same directories

----------------------------------------------------------------------------
(* Values *)
None == <<"None">>
Absent == <<"Absent">>
Unknown == <<"U", "n", "k", "n", "o", "w", "n">>

DB_FOLDER == <<"d", "a", "t", "a", "b", "a", "s", "e">>
COUNTRY_FOLDER == <<"d", "a", "t", "a", "b", "a", "s", "e", "_", "b", "y", "_",
                    "c", "o", "u", "n", "t", "r", "i", "e", "s", "_", "l", "i", "s", "t">>

\* database/database.json and database_by_countries_list/<name>.json; the
\* fixed suffix is left out of the name.
MasterPath == <<DB_FOLDER, DB_FOLDER>>
CountryPath(c_name) == <<COUNTRY_FOLDER, c_name>>

Endpoints == <<"channels", "streams", "countries", "logos", "guides">>

\* bool(v) of Python for the values that occur: None and "" are falsy.
Truthy(v) == v # None /\ v # <<>>

\* obj.get(key): None when the object lacks the key.
Get(obj, key) == IF obj[key] = Absent THEN None ELSE obj[key]

\* obj[key] raises KeyError when the object lacks the key.
HasKey(obj, key) == obj[key] # Absent

\* A dict is a function on its keys.
EmptyDict == <<>>
DictGet(d, k, default) == IF k \in DOMAIN d THEN d[k] ELSE default
DictSet(d, k, v) == (k :> v) @@ d

\* g.get("channel") of a guide object <<channel, site>>.
GuideChannel(g) == IF g[1] = Absent THEN None ELSE g[1]

----------------------------------------------------------------------------
(* The sanitiser of line 128 *)

\* c.isalnum() for the characters that occur.
IsAlnum(c) == c \in {"A", "B", "G", "I", "N", "U", "n", "k", "o", "w", "1", "2"}

KeepChar(c) == IsAlnum(c) \/ c \in {" ", "-", "_"}

RECURSIVE LStrip(_)
LStrip(s) == IF s # <<>> /\ Head(s) = " " THEN LStrip(Tail(s)) ELSE s

RECURSIVE RStrip(_)
RStrip(s) ==
  IF s # <<>> /\ s[Len(s)] = " " THEN RStrip(SubSeq(s, 1, Len(s) - 1)) ELSE s

Strip(s) == RStrip(LStrip(s))

SafeName(c_name) == Strip(SelectSeq(c_name, KeepChar))

----------------------------------------------------------------------------
(* Lookup maps, lines 40-59 *)

RECURSIVE CountryMap(_)
CountryMap(countries) ==
  IF countries = <<>> THEN EmptyDict
  ELSE LET c == countries[Len(countries)]
       IN DictSet(CountryMap(SubSeq(countries, 1, Len(countries) - 1)),
                  c.code, c.name)

CountryKeyError(countries) ==
  \E i \in 1..Len(countries) :
     ~HasKey(countries[i], "code") \/ ~HasKey(countries[i], "name")

\* the guard "cid not in logo_map" dropped: a later logo overwrites
LogoStepOverwrite(m, l) ==
  LET cid == Get(l, "channel")
  IN IF Truthy(cid) THEN DictSet(m, cid, Get(l, "url")) ELSE m

LogoStep(m, l) ==
  LET cid == Get(l, "channel")
  IN IF Truthy(cid) /\ cid \notin DOMAIN m
     THEN DictSet(m, cid, Get(l, "url"))
     ELSE m

RECURSIVE LogoMap(_)
LogoMap(logos) ==
  IF logos = <<>> THEN EmptyDict
  ELSE LogoStep(LogoMap(SubSeq(logos, 1, Len(logos) - 1)), logos[Len(logos)])

\* the guard of the logo loop copied to the guide loop: the first guide stays
GuideStepKeepFirst(m, g) ==
  LET cid == GuideChannel(g)
  IN IF Truthy(cid) /\ cid \notin DOMAIN m THEN DictSet(m, cid, g) ELSE m

GuideStep(m, g) ==
  LET cid == GuideChannel(g)
  IN IF Truthy(cid) THEN DictSet(m, cid, g) ELSE m

RECURSIVE GuideMap(_)
GuideMap(guides) ==
  IF guides = <<>> THEN EmptyDict
  ELSE GuideStep(GuideMap(SubSeq(guides, 1, Len(guides) - 1)), guides[Len(guides)])

RECURSIVE ChannelMap(_)
ChannelMap(channels) ==
  IF channels = <<>> THEN EmptyDict
  ELSE LET c == channels[Len(channels)]
       IN DictSet(ChannelMap(SubSeq(channels, 1, Len(channels) - 1)), c.id, c)

ChannelKeyError(channels) ==
  \E i \in 1..Len(channels) : ~HasKey(channels[i], "id")

----------------------------------------------------------------------------
(* The merge loop, lines 66-113 *)

\* a stream is also skipped when its channel has no logo
SkipUnlessLogo(stream) ==
  LET channel_id == Get(stream, "channel")
  IN \/ ~Truthy(channel_id)
     \/ channel_id \notin DOMAIN channel_map
     \/ channel_id \notin DOMAIN logo_map

\* line 70: the stream is skipped
Skip(stream) ==
  LET channel_id == Get(stream, "channel")
  IN ~Truthy(channel_id) \/ channel_id \notin DOMAIN channel_map

\* stream_url read from a key the stream does not have
EntryWrongUrlKey(stream) ==
  LET channel_id == Get(stream, "channel")
      channel_info == channel_map[channel_id]
  IN [id |-> channel_id,
      country_code |-> Get(channel_info, "country"),
      country_name |-> DictGet(country_map, Get(channel_info, "country"), Unknown),
      logo |-> DictGet(logo_map, channel_id, None),
      stream_url |-> None,
      tv_guide |-> DictGet(guide_map, channel_id, None)]

\* lines 76-112
Entry(stream) ==
  LET channel_id == Get(stream, "channel")
      channel_info == channel_map[channel_id]
  IN [id |-> channel_id,
      country_code |-> Get(channel_info, "country"),
      country_name |-> DictGet(country_map, Get(channel_info, "country"), Unknown),
      logo |-> DictGet(logo_map, channel_id, None),
      stream_url |-> Get(stream, "url"),
      tv_guide |-> DictGet(guide_map, channel_id, None)]

----------------------------------------------------------------------------
(* Grouping by country, lines 124-132 *)

\* lines 126-128 raise TypeError when country_name is None
GroupTypeError(items) ==
  \E i \in 1..Len(items) : items[i].country_name = None

\* the append placed in an else branch: the first item of a group is lost
GroupStepDropFirst(groups, item) ==
  LET safe_name == SafeName(item.country_name)
  IN IF safe_name \in DOMAIN groups
     THEN DictSet(groups, safe_name, Append(groups[safe_name], item))
     ELSE DictSet(groups, safe_name, <<>>)

\* the item inserted at the front of its group
GroupStepPrepend(groups, item) ==
  LET safe_name == SafeName(item.country_name)
  IN DictSet(groups, safe_name, <<item>> \o DictGet(groups, safe_name, <<>>))

GroupStep(groups, item) ==
  LET safe_name == SafeName(item.country_name)
  IN DictSet(groups, safe_name, Append(DictGet(groups, safe_name, <<>>), item))

RECURSIVE CountryGroups(_)
CountryGroups(items) ==
  IF items = <<>> THEN EmptyDict
  ELSE GroupStep(CountryGroups(SubSeq(items, 1, Len(items) - 1)), items[Len(items)])

\* the per-country directory emptied before the groups are written
WriteGroupsCleared(fs, groups) ==
  LET written == {CountryPath(c_name) : c_name \in DOMAIN groups}
  IN [p \in {q \in DOMAIN fs : q[1] # COUNTRY_FOLDER} \cup written |->
        IF p \in written THEN groups[p[2]] ELSE fs[p]]

\* lines 135-138: every group is written to its file, other files stay
WriteGroups(fs, groups) ==
  LET written == {CountryPath(c_name) : c_name \in DOMAIN groups}
  IN [p \in DOMAIN fs \cup written |->
        IF p \in written THEN groups[p[2]] ELSE fs[p]]

----------------------------------------------------------------------------
(* Inputs *)

Channel(id, country) == [id |-> id, country |-> country]
Stream(channel, url) == [channel |-> channel, url |-> url]
Country(code, name) == [code |-> code, name |-> name]
Logo(channel, url) == [channel |-> channel, url |-> url]
Guide(channel, site) == <<channel, site>>

c1 == <<"c", "1">>
c2 == <<"c", "2">>
GB == <<"G", "B">>
IN_ == <<"I", "N">>
u1 == <<"u", "1">>
u2 == <<"u", "2">>
l1 == <<"l", "1">>
l2 == <<"l", "2">>
g1 == <<"g", "1">>
g2 == <<"g", "2">>
NameA == <<"A">>
NameADot == <<"A", ".">>
NameB == <<" ", "B">>

RECURSIVE SeqsOfLen(_, _)
SeqsOfLen(S, n) ==
  IF n = 0 THEN {<<>>}
  ELSE {Append(s, x) : s \in SeqsOfLen(S, n - 1), x \in S}

SeqsUpTo(S, n) == UNION {SeqsOfLen(S, k) : k \in 0..n}

Api(ch, st, co, lo, gu) ==
  [channels |-> ch, streams |-> st, countries |-> co, logos |-> lo, guides |-> gu]

\* Inputs of the repeated runs: which streams and countries the API serves
\* changes from run to run.
SyncApis ==
  {Api(<<Channel(c1, GB), Channel(c2, IN_)>>, st, co, <<>>, <<>>) :
     st \in SeqsUpTo({Stream(c1, u1), Stream(c2, u1)}, MaxSyncLen),
     co \in {<<>>, <<Country(GB, NameA)>>, <<Country(IN_, NameB)>>,
             <<Country(GB, NameA), Country(IN_, NameB)>>}}

\* Irregular channels and streams: an empty id, a missing id, a missing
\* channel, a missing url, a channel without country.
JoinApis ==
  {Api(ch, st, <<Country(GB, NameA)>>, lo, <<>>) :
     ch \in SeqsUpTo({Channel(c1, GB), Channel(c2, Absent), Channel(<<>>, GB),
                      Channel(Absent, GB)}, MaxLen),
     st \in SeqsUpTo({Stream(c1, u1), Stream(c2, u2), Stream(c1, Absent),
                      Stream(<<>>, u1), Stream(Absent, u1)}, MaxLen),
     lo \in {<<>>, <<Logo(c1, l1)>>}}

\* Irregular countries: names that sanitise to the same file name, a null
\* name, a missing code.
CountryApis ==
  {Api(<<Channel(c1, GB), Channel(c2, IN_)>>, st, co, <<>>, <<>>) :
     st \in {<<Stream(c1, u1)>>, <<Stream(c1, u1), Stream(c2, u2)>>,
             <<Stream(c2, u2), Stream(c1, u1), Stream(c2, u1)>>},
     co \in SeqsUpTo({Country(GB, NameA), Country(IN_, NameADot),
                      Country(IN_, NameB), Country(GB, None),
                      Country(Absent, NameA)}, MaxLen)}

\* Duplicate logos and guides.
IndexApis ==
  {Api(<<Channel(c1, GB), Channel(c2, GB)>>, st, <<>>, lo, gu) :
     st \in {<<Stream(c1, u1)>>, <<Stream(c1, u1), Stream(c2, u2), Stream(c1, u2)>>},
     lo \in SeqsUpTo({Logo(c1, l1), Logo(c1, l2), Logo(c1, Absent), Logo(c2, l1),
                      Logo(Absent, l2)}, MaxLen),
     gu \in SeqsUpTo({Guide(c1, g1), Guide(c1, g2), Guide(Absent, g1)}, MaxLen)}

MergeApis == JoinApis \cup CountryApis \cup IndexApis

----------------------------------------------------------------------------
(* The program *)

NoData == Api(<<>>, <<>>, <<>>, <<>>, <<>>)

InitWith(apis) ==
  /\ api \in apis
  /\ pc = "setup"
  /\ runs = 1
  /\ exit_status = <<>>
  /\ dirs = {}
  /\ files = EmptyDict
  /\ files_before = EmptyDict
  /\ requests = <<>>
  /\ errors = <<>>
  /\ fetched = NoData
  /\ country_map = EmptyDict
  /\ logo_map = EmptyDict
  /\ guide_map = EmptyDict
  /\ channel_map = EmptyDict
  /\ stream_idx = 1
  /\ master_database = <<>>
  /\ country_groups = EmptyDict

Init == InitWith(SyncApis)
InitMerge == InitWith(MergeApis)

\* lines 25-26
Setup ==
  /\ pc = "setup"
  /\ dirs' = dirs \cup {DB_FOLDER, COUNTRY_FOLDER}
  /\ pc' = "fetch"
  /\ UNCHANGED <<api, exit_status, runs, files_before, files, mem>>

\* lines 16-18: the request succeeded and the body parsed
FetchReturn(endpoint) ==
  /\ fetched' = [fetched EXCEPT ![endpoint] = api[endpoint]]
  /\ pc' = IF Len(requests') = Len(Endpoints) THEN "index" ELSE "fetch"
  /\ UNCHANGED <<errors, exit_status>>

\* the error reported but not fatal: an empty collection stands in
FetchErrorContinue(endpoint) ==
  /\ errors' = Append(errors, endpoint)
  /\ fetched' = [fetched EXCEPT ![endpoint] = <<>>]
  /\ pc' = IF Len(requests') = Len(Endpoints) THEN "index" ELSE "fetch"
  /\ UNCHANGED exit_status

\* lines 19-21: any exception of the request, the status check or the parse
FetchError(endpoint) ==
  /\ errors' = Append(errors, endpoint)
  /\ pc' = "fetch_failed"
  /\ exit_status' = <<1>>
  /\ UNCHANGED fetched

\* lines 11-21 and 30-34: the next of the five fetches
FetchJson ==
  /\ pc = "fetch"
  /\ LET endpoint == Endpoints[Len(requests) + 1]
     IN /\ requests' = Append(requests, endpoint)
        /\ \E ok \in BOOLEAN :
             IF ok THEN FetchReturn(endpoint) ELSE FetchError(endpoint)
  /\ UNCHANGED <<api, runs, files_before, disk, country_map, logo_map, guide_map,
                 channel_map, stream_idx, master_database, country_groups>>

\* lines 40-59
BuildMaps ==
  /\ pc = "index"
  /\ IF CountryKeyError(fetched.countries) \/ ChannelKeyError(fetched.channels)
     THEN /\ pc' = "crashed"
          /\ exit_status' = <<1>>
          /\ UNCHANGED <<country_map, logo_map, guide_map, channel_map>>
     ELSE /\ country_map' = CountryMap(fetched.countries)
          /\ logo_map' = LogoMap(fetched.logos)
          /\ guide_map' = GuideMap(fetched.guides)
          /\ channel_map' = ChannelMap(fetched.channels)
          /\ pc' = "merge"
          /\ UNCHANGED exit_status
  /\ UNCHANGED <<api, runs, files_before, disk, requests, errors, fetched,
                 stream_idx, master_database, country_groups>>

\* lines 66-113: one iteration of the merge loop
MergeStep ==
  /\ pc = "merge"
  /\ stream_idx <= Len(fetched.streams)
  /\ LET stream == fetched.streams[stream_idx]
     IN master_database' = IF Skip(stream) THEN master_database
                           ELSE Append(master_database, Entry(stream))
  /\ stream_idx' = stream_idx + 1
  /\ UNCHANGED <<api, pc, exit_status, runs, files_before, disk, requests, errors, fetched,
                 country_map, logo_map, guide_map, channel_map, country_groups>>

\* lines 116-118
SaveMaster ==
  /\ pc = "merge"
  /\ stream_idx > Len(fetched.streams)
  /\ files' = DictSet(files, MasterPath, master_database)
  /\ pc' = "split"
  /\ UNCHANGED <<api, exit_status, runs, files_before, dirs, mem>>

\* lines 124-132
GroupByCountry ==
  /\ pc = "split"
  /\ IF GroupTypeError(master_database)
     THEN /\ pc' = "crashed"
          /\ exit_status' = <<1>>
          /\ UNCHANGED country_groups
     ELSE /\ country_groups' = CountryGroups(master_database)
          /\ pc' = "save"
          /\ UNCHANGED exit_status
  /\ UNCHANGED <<api, runs, files_before, disk, requests, errors, fetched,
                 country_map, logo_map, guide_map, channel_map, stream_idx,
                 master_database>>

\* lines 135-140; main returns and the process exits with status 0
SaveCountries ==
  /\ pc = "save"
  /\ files' = WriteGroups(files, country_groups)
  /\ pc' = "done"
  /\ exit_status' = <<0>>
  /\ UNCHANGED <<api, runs, files_before, dirs, mem>>

Finished == exit_status # <<>>

\* the process is gone and its memory with it; the files stay
Exit ==
  /\ Finished
  /\ pc # "exited"
  /\ pc' = "exited"
  /\ api' = NoData
  /\ requests' = <<>>
  /\ errors' = <<>>
  /\ fetched' = NoData
  /\ country_map' = EmptyDict
  /\ logo_map' = EmptyDict
  /\ guide_map' = EmptyDict
  /\ channel_map' = EmptyDict
  /\ stream_idx' = 1
  /\ master_database' = <<>>
  /\ country_groups' = EmptyDict
  /\ UNCHANGED <<exit_status, runs, files_before, disk>>

\* the program is started again; the API may serve other data by then
Start ==
  /\ pc = "exited"
  /\ runs < MaxRuns
  /\ runs' = runs + 1
  /\ api' \in SyncApis
  /\ pc' = "setup"
  /\ exit_status' = <<>>
  /\ files_before' = files
  /\ UNCHANGED <<disk, mem>>

Run ==
  \/ Setup
  \/ FetchJson
  \/ BuildMaps
  \/ MergeStep
  \/ SaveMaster
  \/ GroupByCountry
  \/ SaveCountries

Next == Run \/ Exit \/ Start

Spec == Init /\ [][Next]_vars

SpecMerge == InitMerge /\ [][Run]_vars

----------------------------------------------------------------------------
(* Properties *)

Indices(s) == 1..Len(s)
Range(s) == {s[i] : i \in Indices(s)}

RECURSIVE BagOfSeq(_)
BagOfSeq(s) ==
  IF s = <<>> THEN EmptyBag ELSE BagOfSeq(Tail(s)) (+) SetToBag({Head(s)})

RECURSIVE BagSum(_, _)
BagSum(fs, paths) ==
  IF paths = {} THEN EmptyBag
  ELSE LET p == CHOOSE q \in paths : TRUE
       IN BagOfSeq(fs[p]) (+) BagSum(fs, paths \ {p})

CountryPaths(fs) == {p \in DOMAIN fs : p[1] = COUNTRY_FOLDER}

\* the per-country paths named by the country names of the run's records
OwnCountryPaths ==
  {CountryPath(SafeName(master_database[i].country_name)) :
     i \in {k \in Indices(master_database) : master_database[k].country_name # None}}

\* every record of a file, and every record held by the run or by a file
FileRecords == UNION {Range(files[p]) : p \in DOMAIN files}
OutputRecords == Range(master_database) \cup FileRecords

\* the streams the merge loop has gone through
Processed == SubSeq(fetched.streams, 1, stream_idx - 1)

\* the channel id and url of each stream, and of each record
StreamKeys(streams) ==
  [i \in Indices(streams) |->
     <<Get(streams[i], "channel"), Get(streams[i], "url")>>]
EntryKeys(entries) ==
  [i \in Indices(entries) |-> <<entries[i].id, entries[i].stream_url>>]

\* some channel of the channel collection has the stream's channel id
C1_Present(stream) ==
  /\ stream.channel \notin {Absent, None}
  /\ \E i \in Indices(fetched.channels) : fetched.channels[i].id = stream.channel

C1_Kept(stream) == C1_Present(stream) /\ stream.channel # <<>>

C2_FetchFailureStops ==
  /\ requests = SubSeq(Endpoints, 1, Len(requests))
  /\ errors # <<>> =>
       /\ pc = "fetch_failed"
       /\ exit_status = <<1>>
       /\ errors = <<requests[Len(requests)]>>
       /\ files = files_before
       /\ ~ENABLED Run

C2_Witness ==
  /\ errors = <<"countries">>
  /\ requests = <<"channels", "streams", "countries">>
  /\ CountryPaths(files) # {}
  /\ MasterPath \in DOMAIN files

\* C3 as stated: after a run that completes, the union of the contents of all
\* per-country files equals the master file, count for count, and every
\* master record appears in exactly one per-country file.
C3_Original ==
  pc = "done" =>
    /\ BagSum(files, CountryPaths(files)) = BagOfSeq(files[MasterPath])
    /\ \A r \in Range(files[MasterPath]) :
         Cardinality({p \in CountryPaths(files) : r \in Range(files[p])}) = 1

\* C3 amended: after a run that completes, the union of the contents of the
\* per-country files that the run wrote equals the master file, count for
\* count, and every master record appears in exactly one per-country file.
C3_PartitionComplete ==
  pc = "done" =>
    /\ OwnCountryPaths \subseteq DOMAIN files
    /\ BagSum(files, OwnCountryPaths) = BagOfSeq(files[MasterPath])
    /\ \A r \in Range(files[MasterPath]) :
         Cardinality({p \in CountryPaths(files) : r \in Range(files[p])}) = 1

C3_Witness ==
  /\ pc = "done"
  /\ master_database # <<>>
  /\ CountryPaths(files) \ OwnCountryPaths # {}

\* C4 as stated: all records of a per-country file have the same
\* country_name, the file holds every master record with that country_name in
\* the order of the master file, and there is one file per distinct country.
C4_Original ==
  pc = "done" =>
    /\ \A p \in CountryPaths(files) :
         \E c_name \in {r.country_name : r \in Range(files[p])} :
            LET OfCountry(r) == r.country_name = c_name
            IN files[p] = SelectSeq(files[MasterPath], OfCountry)
    /\ Cardinality(CountryPaths(files)) =
         Cardinality({r.country_name : r \in Range(files[MasterPath])})

\* C4 amended: every per-country file the run wrote holds the records of one
\* sanitised country name: it holds every master record whose sanitised
\* country_name is the file's name, and only those, in the order of the
\* master file; there is one such file per distinct sanitised country name.
C4_OneFilePerSafeName ==
  pc = "done" =>
    /\ \A p \in OwnCountryPaths :
         LET OfName(r) == SafeName(r.country_name) = p[2]
         IN p \in DOMAIN files /\ files[p] = SelectSeq(files[MasterPath], OfName)
    /\ \A r \in Range(files[MasterPath]) :
         CountryPath(SafeName(r.country_name)) \in OwnCountryPaths
    /\ Cardinality(OwnCountryPaths) =
         Cardinality({SafeName(r.country_name) : r \in Range(files[MasterPath])})

C4_Witness ==
  /\ pc = "done"
  /\ \E p \in OwnCountryPaths :
       /\ Len(files[p]) >= 2
       /\ Cardinality({r.country_name : r \in Range(files[p])}) = 2
  /\ Cardinality(OwnCountryPaths) = 1

\* C5 as stated: every record of an output file has a country_name that is not
\* null; it is the name of a country entry whose code is the channel's
\* country, or "Unknown".
C5_Claim ==
  \A r \in FileRecords :
     /\ r.country_name \notin {None, Absent}
     /\ \/ r.country_name = Unknown
        \/ \E i \in Indices(fetched.countries) :
              /\ fetched.countries[i].code = r.country_code
              /\ fetched.countries[i].name = r.country_name

\* the stream of the current iteration and the record it appends
C6_Appends == Len(master_database') = Len(master_database) + 1
C6_Stream == fetched.streams[stream_idx]
C6_Appended == master_database'[Len(master_database')]

\* C6 as stated: every record appended by the merge loop has a non-null id
\* equal to the channel id of its stream and a non-null stream_url equal to
\* the url of that stream.
C6_Original ==
  [][C6_Appends =>
       /\ C6_Appended.id # None
       /\ C6_Appended.id = C6_Stream.channel
       /\ C6_Appended.stream_url # None
       /\ C6_Appended.stream_url = C6_Stream.url]_vars

\* C6 amended: every record appended by the merge loop has a non-null id
\* equal to the channel id of its stream, and a stream_url equal to the url
\* of that stream, which is null when the stream has no url; the master file
\* is written from these records.
C6_EntryFromStream ==
  [][/\ C6_Appends =>
          /\ C6_Appended.id # None
          /\ C6_Appended.id = C6_Stream.channel
          /\ C6_Appended.stream_url =
                (IF C6_Stream.url = Absent THEN None ELSE C6_Stream.url)
     /\ MasterPath \in DOMAIN files' => files'[MasterPath] = master_database]_vars

C6_Witness ==
  /\ pc = "done"
  /\ \E r \in Range(files[MasterPath]) : r.stream_url = None
  /\ \E r \in Range(files[MasterPath]) : r.stream_url = u1

\* the positions of the logo, and of the guide, entries of a channel id
LogosOf(id) == {i \in Indices(fetched.logos) : fetched.logos[i].channel = id}
GuidesOf(id) == {i \in Indices(fetched.guides) : fetched.guides[i][1] = id}
Min(S) == CHOOSE x \in S : \A y \in S : x <= y
Max(S) == CHOOSE x \in S : \A y \in S : x >= y

\* C7: the logo of every record is the url of the first logo entry of its
\* channel id, whatever later entries hold, and null when there is none.
C7_LogoFirstWins ==
  \A r \in OutputRecords :
     r.logo = IF LogosOf(r.id) = {} THEN None
              ELSE Get(fetched.logos[Min(LogosOf(r.id))], "url")

C7_Witness ==
  /\ pc = "done"
  /\ \E r \in Range(files[MasterPath]) :
       \E i, j \in LogosOf(r.id) : fetched.logos[i].url # fetched.logos[j].url
  /\ \E r \in Range(files[MasterPath]) : LogosOf(r.id) = {}

\* C8: the tv_guide of every record is the whole guide object that is last
\* among the guide entries of its channel id, and null when there is none.
C8_GuideLastWins ==
  \A r \in OutputRecords :
     r.tv_guide = IF GuidesOf(r.id) = {} THEN None
                  ELSE fetched.guides[Max(GuidesOf(r.id))]

C8_Witness ==
  /\ pc = "done"
  /\ \E r \in Range(files[MasterPath]) :
       \E i, j \in GuidesOf(r.id) : fetched.guides[i] # fetched.guides[j]
  /\ \E r \in Range(files[MasterPath]) : GuidesOf(r.id) = {}

\* C9 as stated: a run whose five fetches all succeed ends with status 0,
\* the master file and every per-country file written.
C9_Claim ==
  (Finished /\ pc # "exited" /\ errors = <<>>) =>
     /\ exit_status = <<0>>
     /\ MasterPath \in DOMAIN files
     /\ OwnCountryPaths \subseteq DOMAIN files

\* C10: a run creates or changes only the master file and the per-country
\* files named by the sanitised country names of its own records; every
\* other file stays, with the contents it had when the run started.
C10_OtherFilesKept ==
  pc # "exited" =>
    /\ DOMAIN files_before \subseteq DOMAIN files
    /\ \A p \in DOMAIN files :
         \/ p \in DOMAIN files_before /\ files[p] = files_before[p]
         \/ p \in {MasterPath} \cup OwnCountryPaths

C10_Witness ==
  /\ pc = "done"
  /\ runs = 2
  /\ master_database # <<>>
  /\ \E p \in CountryPaths(files) \ OwnCountryPaths :
       files[p] # <<>> /\ files[p] = files_before[p]

=============================================================================
